---- MODULE Spec2Model ----
(***************************************************************************)
(* The Katana genesis builder of src/test_utils/katana/genesis.rs:         *)
(* KatanaGenesisBuilder<T> with its typestate (Uninitialized, Loaded,      *)
(* Initialized), the parallel class loader, the dispatcher ("kakarot")     *)
(* deployment, the EOA deployment and funding, and the assembly of the     *)
(* genesis document and of the manifest.                                   *)
(*                                                                         *)
(* Values.  A field element, a class hash, a contract address and a        *)
(* storage key are tuples whose first component is a tag:                  *)
(*   <<"num", limbs>>            a number, 16 little-endian 16-bit limbs   *)
(*   <<"casm", id>>, <<"legacy", id>>   the class hash of artifact id      *)
(*   <<"evm", pk>>               the EVM address of private key pk         *)
(*   <<"udc", salt, class, args>>     get_udc_deployed_address             *)
(*   <<"addr", salt, class, args, deployer>>   get_contract_address        *)
(*   <<"fee_token">>             DEFAULT_FEE_TOKEN_ADDRESS                 *)
(*   <<"slot", name, keys, off>> get_storage_var_address(name, keys) + off *)
(* The hash functions of the ledger (Pedersen, Keccak, the class hashes)   *)
(* are collision free in this model: a hash is the term of its arguments.  *)
(***************************************************************************)
EXTENDS Integers, Sequences, FiniteSets, Bags, TLC

VARIABLES
    coinbase,           \* KatanaGenesisBuilder.coinbase
    classes,            \* KatanaGenesisBuilder.classes (a Vec, kept up to order: a bag)
    class_hashes,       \* KatanaGenesisBuilder.class_hashes
    contracts,          \* KatanaGenesisBuilder.contracts
    fee_token_storage,  \* KatanaGenesisBuilder.fee_token_storage
    cache,              \* KatanaGenesisBuilder.cache
    status,             \* the type parameter T of KatanaGenesisBuilder<T>
    alive,              \* the caller holds the builder (it is not yet moved or dropped)
    op,                 \* the name of the last operation called
    result,             \* what it returned: "Ok", an error message, or "panic"
    document,           \* the GenesisJson of the last build()
    manifest,           \* the KatanaManifest of the last manifest()
    deployed,           \* history: with_kakarot has succeeded on this builder
    pc,                 \* load_classes: "idle", "parse" or "hash"
    walk,               \* load_classes: the files WalkDir yields, in its order
    todo,               \* load_classes: the entries par_bridge has not yet mapped
    parsed,             \* load_classes: the local Vec `classes`, in arrival order
    hashed              \* load_classes: the finished filter_map closures, by index

vars == <<coinbase, classes, class_hashes, contracts, fee_token_storage, cache,
          status, alive, op, result, document, manifest, deployed,
          pc, walk, todo, parsed, hashed>>

builderVars == <<coinbase, classes, class_hashes, contracts, fee_token_storage, cache>>
loaderVars == <<pc, walk, todo, parsed, hashed>>

-----------------------------------------------------------------------------
(* Bounds of the model. *)

\* with_kakarot and with_eoa are called while the contracts table stays
\* within MaxContracts entries.
MaxContracts == 3

-----------------------------------------------------------------------------
(* Maps (HashMap) and results (Result<T>, Option<T>). *)

EmptyMap == <<>>

\* HashMap::insert
Insert(m, k, v) == [x \in (DOMAIN m) \cup {k} |-> IF x = k THEN v ELSE m[x]]

\* HashMap::extend with the pairs of a sequence, in order
RECURSIVE Extend(_, _)
Extend(m, pairs) ==
    IF pairs = <<>> THEN m
    ELSE Extend(Insert(m, Head(pairs)[1], Head(pairs)[2]), Tail(pairs))

Ok(v) == <<"Ok", v>>
Err(e) == <<"Err", e>>
IsOk(r) == r[1] = "Ok"

None == <<"None">>
Some(v) == <<"Some", v>>

-----------------------------------------------------------------------------
(* 256-bit and 128-bit unsigned integers, as little-endian 16-bit limbs. *)

LimbBits == 4 * 4
LimbBase == 2 ^ LimbBits
U256Limbs == 256 \div LimbBits
U128Limbs == 128 \div LimbBits

Zeros(n) == [i \in 1..n |-> 0]
Ones(n) == [i \in 1..n |-> LimbBase - 1]

\* u128::MAX
U128_MAX == Ones(U128Limbs)

\* U256::from(u128)
U256FromU128(x) == [i \in 1..U256Limbs |-> IF i <= U128Limbs THEN x[i] ELSE 0]

\* bitwise and of two limbs
RECURSIVE LimbAnd(_, _, _)
LimbAnd(a, b, n) ==
    IF n = 0 THEN 0
    ELSE (a % 2) * (b % 2) + 2 * LimbAnd(a \div 2, b \div 2, n - 1)

\* U256 & U256
U256And(a, b) == [i \in 1..U256Limbs |-> LimbAnd(a[i], b[i], LimbBits)]

\* U256 >> n
U256Shr(a, n) ==
    LET ws == n \div LimbBits
        bs == n % LimbBits
    IN  [i \in 1..U256Limbs |->
            LET lo == IF i + ws <= U256Limbs THEN a[i + ws] \div (2 ^ bs) ELSE 0
                hi == IF bs > 0 /\ i + ws + 1 <= U256Limbs
                      THEN (a[i + ws + 1] % (2 ^ bs)) * (2 ^ (LimbBits - bs))
                      ELSE 0
            IN  lo + hi]

\* u128::try_from(U256): an error when the value does not fit
U256TryIntoU128(a) ==
    IF \A i \in (U128Limbs + 1)..U256Limbs : a[i] = 0
    THEN Ok([i \in 1..U128Limbs |-> a[i]])
    ELSE Err("integer overflow when casting to u128")

\* FieldElement::from(u128)
FeltFromU128(x) == <<"num", U256FromU128(x)>>

\* FieldElement::ZERO
FELT_ZERO == <<"num", Zeros(U256Limbs)>>

\* the number x < 2^16 as a U256
U256Small(x) == [i \in 1..U256Limbs |-> IF i = 1 THEN x ELSE 0]

-----------------------------------------------------------------------------
(* The address deriver (starknet::core::utils) and its constants. *)

\* SALT: 32 zero bytes
SALT == FELT_ZERO

DEFAULT_FEE_TOKEN_ADDRESS == <<"fee_token">>

\* get_udc_deployed_address(salt, class_hash, &UdcUniqueness::NotUnique, args)
get_udc_deployed_address(salt, class_hash, ctor_args) ==
    <<"udc", salt, class_hash, ctor_args>>

\* get_contract_address(salt, class_hash, args, deployer)
get_contract_address(salt, class_hash, ctor_args, deployer) ==
    <<"addr", salt, class_hash, ctor_args, deployer>>

\* get_storage_var_address(name, keys)
get_storage_var_address(name, keys) == <<"slot", name, keys, 0>>

\* key + 1u8.into()
KeyPlusOne(key) == <<key[1], key[2], key[3], key[4] + 1>>

storage_addr(var_name) == Ok(get_storage_var_address(var_name, <<>>))

-----------------------------------------------------------------------------
(* Artifacts and directory trees.  The text of a file is <<kind, id>>:     *)
(*   "sierra"              parses as ContractClass and compiles to CASM    *)
(*   "sierra_uncompilable" parses as ContractClass, does not compile       *)
(*   "legacy"              parses as LegacyContractClass only              *)
(*   "legacy_unhashable"   parses as LegacyContractClass, has no hash      *)
(*   "neither"             JSON that parses under neither schema           *)
(*   "not_json"            not JSON                                        *)
(* A tree is the sequence of its regular files in the order of WalkDir.    *)

File(dir, stem, kind, id) == [dir |-> dir, stem |-> stem, text |-> <<kind, id>>]

FullTree ==
    << File("a", "kakarot", "sierra", 1),
       File("a", "contract_account", "legacy", 2),
       File("a", "externally_owned_account", "legacy", 3),
       File("a", "proxy", "legacy", 4),
       File("a", "precompiles", "sierra", 5) >>

\* the tree of a second build: another kakarot artifact
FullTree2 == [FullTree EXCEPT ![1] = File("a", "kakarot", "legacy", 6)]

RequiredNames ==
    {"kakarot", "contract_account", "externally_owned_account", "proxy", "precompiles"}

\* FullTree without the file of one class
Without(name) == SelectSeq(FullTree, LAMBDA f : f.stem # name)

\* two files of the same stem in two sub-directories
DupTree ==
    << File("a", "proxy", "legacy", 4),
       File("b", "proxy", "sierra", 7),
       File("a", "kakarot", "sierra", 1) >>

\* an artifact that parses under neither schema
NeitherTree ==
    << File("a", "kakarot", "sierra", 1), File("a", "junk", "neither", 8) >>

\* a current-generation artifact that does not compile
UncompilableTree == << File("a", "kakarot", "sierra_uncompilable", 9) >>

\* a file that is not JSON
NotJsonTree ==
    << File("a", "kakarot", "sierra", 1), File("a", "README", "not_json", 10) >>

\* FullTree whose precompiles class has no legacy hash
UnhashableTree ==
    [FullTree EXCEPT ![5] = File("a", "precompiles", "legacy_unhashable", 11)]

Trees ==
    {FullTree, FullTree2, DupTree, NeitherTree, UncompilableTree, NotJsonTree,
     UnhashableTree, <<>>}
        \cup {Without(n) : n \in RequiredNames}

-----------------------------------------------------------------------------
(* The artifact hasher. *)

Panic(msg) == <<"Panic", msg>>
IsPanic(r) == r[1] = "Panic"

\* serde_json::from_str(&artifact)
ParseJson(text) ==
    IF text[1] = "not_json" THEN Err("expected value") ELSE Ok(text)

\* serde_json::from_value::<ContractClass>(class)
ParseContractClass(class) ==
    IF class[1] \in {"sierra", "sierra_uncompilable"}
    THEN Ok(class) ELSE Err("not a contract class")

\* serde_json::from_value::<LegacyContractClass>(class)
ParseLegacyContractClass(class) ==
    IF class[1] \in {"legacy", "legacy_unhashable"}
    THEN Ok(class) ELSE Err("not a legacy contract class")

\* CasmContractClass::from_contract_class(casm, true)
CasmFromContractClass(class) ==
    IF class[1] = "sierra" THEN Ok(class) ELSE Err("compilation error")

\* LegacyContractClass::class_hash()
LegacyClassHash(class) ==
    IF class[1] = "legacy" THEN Ok(<<"legacy", class[2]>>)
    ELSE Err("compute class hash error")

\* compute_class_hash: Ok(hash), Err(e), or a panic of one of its expect()s
compute_class_hash(class) ==
    IF IsOk(ParseContractClass(class))
    THEN IF IsOk(CasmFromContractClass(class))
         THEN Ok(<<"casm", class[2]>>)
         ELSE Panic("Failed to convert class")
    ELSE IF IsOk(ParseLegacyContractClass(class))
         THEN LegacyClassHash(class)
         ELSE Panic("Failed to parse class code v0")

-----------------------------------------------------------------------------
(* The class loader: the two closures of load_classes and its collects. *)

GenesisClassJson(artifact) == [class |-> <<"Artifact", artifact>>, class_hash |-> None]

\* the closure of the first map: (path, GenesisClassJson), or a panic
ParseWork(file) ==
    IF IsOk(ParseJson(file.text))
    THEN <<"Item", <<file.dir, file.stem>>, GenesisClassJson(file.text)>>
    ELSE Panic("Failed to parse artifact")

\* the closure of filter_map: Some((stem, hash)), None, or a panic
HashWork(item) ==
    LET r == compute_class_hash(item[3].class[2])
    IN  IF IsPanic(r) THEN r
        ELSE IF IsOk(r) THEN Some(<<item[2][2], r[2]>>)
        ELSE None

\* collect::<HashMap<_, _>>() of the filter_map results, which rayon hands over
\* in the order of the Vec they come from
RECURSIVE CollectClassHashes(_)
CollectClassHashes(results) ==
    IF results = <<>> THEN EmptyMap
    ELSE LET m == CollectClassHashes(SubSeq(results, 1, Len(results) - 1))
             r == results[Len(results)]
         IN  IF r[1] = "Some" THEN Insert(m, r[2][1], r[2][2]) ELSE m

\* classes.into_iter().map(|(_, class)| class).collect()
RECURSIVE CollectClasses(_)
CollectClasses(items) ==
    IF items = <<>> THEN EmptyBag
    ELSE SetToBag({Head(items)[3]}) (+) CollectClasses(Tail(items))

-----------------------------------------------------------------------------
(* The builder as a value, and what a call returns: its result ("Ok", an   *)
(* error message or "panic") with the builder's fields as the call left    *)
(* them (the fields of `self` at the return, also when self is dropped).   *)

Self ==
    [coinbase |-> coinbase, classes |-> classes, class_hashes |-> class_hashes,
     contracts |-> contracts, fee_token_storage |-> fee_token_storage,
     cache |-> cache]

\* KatanaGenesisBuilder::default()
DefaultBuilder ==
    [coinbase |-> FELT_ZERO, classes |-> EmptyBag, class_hashes |-> EmptyMap,
     contracts |-> EmptyMap, fee_token_storage |-> EmptyMap, cache |-> EmptyMap]

Ret(res, b) == [res |-> res, b |-> b]

\* self.class_hashes.get(name).cloned().ok_or(eyre!(msg))
ClassHashGet(b, name, msg) ==
    IF name \in DOMAIN b.class_hashes THEN Ok(b.class_hashes[name]) ELSE Err(msg)

kakarot_class_hash(b) == ClassHashGet(b, "kakarot", "Missing Kakarot class hash")

contract_account_class_hash(b) ==
    ClassHashGet(b, "contract_account", "Missing contract account class hash")

eoa_class_hash(b) ==
    ClassHashGet(b, "externally_owned_account", "Missing eoa account class hash")

proxy_class_hash(b) == ClassHashGet(b, "proxy", "Missing proxy class hash")

\* a getter that takes the default hash for a missing name
precompiles_class_hash_or_default(b) ==
    IF "precompiles" \in DOMAIN b.class_hashes
    THEN Ok(b.class_hashes["precompiles"]) ELSE Ok(FELT_ZERO)

precompiles_class_hash(b) ==
    ClassHashGet(b, "precompiles", "Missing precompiles class hash")

\* the messages of the five getters
MissingClassHash ==
    {"Missing Kakarot class hash", "Missing contract account class hash",
     "Missing eoa account class hash", "Missing proxy class hash",
     "Missing precompiles class hash"}

\* "Cache miss for {key} address"
CacheMiss(key) == "Cache miss for " \o key \o " address"

\* a load that takes the default address for a missing key
cache_load_or_default(b, key) ==
    IF key \in DOMAIN b.cache THEN Ok(b.cache[key]) ELSE Ok(FELT_ZERO)

cache_load(b, key) ==
    IF key \in DOMAIN b.cache THEN Ok(b.cache[key]) ELSE Err(CacheMiss(key))

\* LocalWallet::from_bytes(pk) and the wallet's address as a field element:
\* the zero key is no secret key
evm_address(pk) ==
    IF pk = 0 THEN Err("signature error") ELSE Ok(<<"evm", pk>>)

compute_starknet_address(b, evm) ==
    LET kakarot_address == cache_load(b, "kakarot_address")
        proxy == proxy_class_hash(b)
    IN  IF ~IsOk(kakarot_address) THEN kakarot_address
        ELSE IF ~IsOk(proxy) THEN proxy
        ELSE Ok(get_contract_address(evm, proxy[2], <<>>, kakarot_address[2]))

\* GenesisContractJson
GenesisContractJson(class, balance, nonce, storage) ==
    [class |-> class, balance |-> balance, nonce |-> nonce, storage |-> storage]

\* the six slots with_kakarot writes into the dispatcher's storage
KakarotStorage(ca, eoa, proxy, pre, coinbase_address) ==
    Extend(EmptyMap,
        << <<storage_addr("native_token_address")[2], DEFAULT_FEE_TOKEN_ADDRESS>>,
           <<storage_addr("contract_account_class_hash")[2], ca>>,
           <<storage_addr("externally_owned_account_class_hash")[2], eoa>>,
           <<storage_addr("account_proxy_class_hash")[2], proxy>>,
           <<storage_addr("precompiles_class_hash")[2], pre>>,
           <<storage_addr("coinbase")[2], coinbase_address>> >>)

with_kakarot(b, coinbase_address) ==
    LET k == kakarot_class_hash(b)
        ca == contract_account_class_hash(b)
        eoa == eoa_class_hash(b)
        proxy == proxy_class_hash(b)
        pre == precompiles_class_hash(b)
    IN  IF ~IsOk(k) THEN Ret(k[2], b)
        ELSE IF ~IsOk(ca) THEN Ret(ca[2], b)
        ELSE IF ~IsOk(eoa) THEN Ret(eoa[2], b)
        ELSE IF ~IsOk(proxy) THEN Ret(proxy[2], b)
        ELSE IF ~IsOk(pre) THEN Ret(pre[2], b)
        ELSE
        LET kakarot_address ==
                get_udc_deployed_address(SALT, k[2],
                    <<FELT_ZERO, DEFAULT_FEE_TOKEN_ADDRESS, ca[2], eoa[2], proxy[2], pre[2]>>)
            kakarot ==
                GenesisContractJson(k[2], None, None,
                    Some(KakarotStorage(ca[2], eoa[2], proxy[2], pre[2], coinbase_address)))
        IN  Ret("Ok",
                [b EXCEPT !.cache = Insert(@, "kakarot_address", kakarot_address),
                          !.contracts = Insert(@, kakarot_address, kakarot),
                          !.coinbase = coinbase_address])

\* an EOA storage with the values of its first two slots exchanged
EoaStorage_exchanged(evm, kakarot_address, eoa_class) ==
    Extend(EmptyMap,
        << <<storage_addr("evm_address")[2], kakarot_address>>,
           <<storage_addr("kakarot_address")[2], evm>>,
           <<storage_addr("_implementation")[2], eoa_class>> >>)

\* the three slots of an EOA's own storage
EoaStorage(evm, kakarot_address, eoa_class) ==
    Extend(EmptyMap,
        << <<storage_addr("evm_address")[2], evm>>,
           <<storage_addr("kakarot_address")[2], kakarot_address>>,
           <<storage_addr("_implementation")[2], eoa_class>> >>)

\* an allowance whose high limb is not written
AllowanceSlots_low_only(key) == << <<key, FeltFromU128(U128_MAX)>> >>

\* the allowance of the EOA to the dispatcher: both limbs u128::MAX
AllowanceSlots(key) ==
    << <<key, FeltFromU128(U128_MAX)>>, <<KeyPlusOne(key), FeltFromU128(U128_MAX)>> >>

\* a mapping entry that records the EVM address itself
EvmToStarknetEntry_evm(evm, starknet_address) ==
    <<get_storage_var_address("evm_to_starknet_address", <<evm>>), evm>>

\* the entry of the dispatcher's evm to starknet mapping
EvmToStarknetEntry(evm, starknet_address) ==
    <<get_storage_var_address("evm_to_starknet_address", <<evm>>), starknet_address>>

\* a storage that is started anew whatever the contract holds
StorageOrNew_fresh(contract) == EmptyMap

\* storage.get_or_insert_with(HashMap::new)
StorageOrNew(contract) ==
    IF contract.storage = None THEN EmptyMap ELSE contract.storage[2]

with_eoa(b, private_key) ==
    LET evm == evm_address(private_key)
        kakarot_address == cache_load(b, "kakarot_address")
        eoa_class == eoa_class_hash(b)
        proxy == proxy_class_hash(b)
    IN  IF ~IsOk(evm) THEN Ret(evm[2], b)
        ELSE IF ~IsOk(kakarot_address) THEN Ret(kakarot_address[2], b)
        ELSE IF ~IsOk(eoa_class) THEN Ret(eoa_class[2], b)
        ELSE IF ~IsOk(proxy) THEN Ret(proxy[2], b)
        ELSE
        LET eoa == GenesisContractJson(proxy[2], None, None,
                        Some(EoaStorage(evm[2], kakarot_address[2], eoa_class[2])))
            starknet_address == compute_starknet_address(b, evm[2])
        IN  IF ~IsOk(starknet_address) THEN Ret(starknet_address[2], b)
            ELSE
            LET key == get_storage_var_address("ERC20_allowances",
                            <<starknet_address[2], kakarot_address[2]>>)
                b1 == [b EXCEPT
                         !.contracts = Insert(@, starknet_address[2], eoa),
                         !.fee_token_storage = Extend(@, AllowanceSlots(key))]
            IN  IF kakarot_address[2] \notin DOMAIN b1.contracts
                THEN Ret("Kakarot contract missing", b1)
                ELSE
                LET kakarot_contract == b1.contracts[kakarot_address[2]]
                    storage == Extend(StorageOrNew(kakarot_contract),
                                   <<EvmToStarknetEntry(evm[2], starknet_address[2])>>)
                IN  Ret("Ok",
                        [b1 EXCEPT !.contracts[kakarot_address[2]].storage = Some(storage)])

\* a split that shifts the high limb by 64 bits only
BalanceLimbs_shift64(amount) ==
    LET low == U256TryIntoU128(U256And(amount, U256FromU128(U128_MAX)))
        high == U256TryIntoU128(U256Shr(amount, 64))
    IN  IF IsOk(low) /\ IsOk(high) THEN Ok(<<low[2], high[2]>>)
        ELSE Panic("unwrap on an Err value")

\* the low and the high 128 bits of the amount, each as a u128 (or the panic
\* of an unwrap)
BalanceLimbs(amount) ==
    LET low == U256TryIntoU128(U256And(amount, U256FromU128(U128_MAX)))
        high == U256TryIntoU128(U256Shr(amount, 128))
    IN  IF IsOk(low) /\ IsOk(high) THEN Ok(<<low[2], high[2]>>)
        ELSE Panic("unwrap on an Err value")

\* a fund that writes the balance slots of an account it does not find
fund_unchecked(b, pk, amount) ==
    LET evm == evm_address(pk)
    IN  IF ~IsOk(evm) THEN Ret(evm[2], b)
        ELSE
        LET starknet_address == compute_starknet_address(b, evm[2])
        IN  IF ~IsOk(starknet_address) THEN Ret(starknet_address[2], b)
            ELSE
            LET key == get_storage_var_address("ERC20_balances", <<starknet_address[2]>>)
                limbs == BalanceLimbs(amount)
                b1 == [b EXCEPT
                         !.fee_token_storage =
                             Extend(@, << <<key, FeltFromU128(limbs[2][1])>>,
                                          <<KeyPlusOne(key), FeltFromU128(limbs[2][2])>> >>)]
            IN  IF IsPanic(limbs) THEN Ret("panic", b)
                ELSE IF starknet_address[2] \notin DOMAIN b.contracts THEN Ret("Ok", b1)
                ELSE Ret("Ok",
                        [b1 EXCEPT !.contracts[starknet_address[2]].balance = Some(amount)])

fund(b, pk, amount) ==
    LET evm == evm_address(pk)
    IN  IF ~IsOk(evm) THEN Ret(evm[2], b)
        ELSE
        LET starknet_address == compute_starknet_address(b, evm[2])
        IN  IF ~IsOk(starknet_address) THEN Ret(starknet_address[2], b)
            ELSE IF starknet_address[2] \notin DOMAIN b.contracts
            THEN Ret("Missing EOA contract", b)
            ELSE
            LET key == get_storage_var_address("ERC20_balances", <<starknet_address[2]>>)
                limbs == BalanceLimbs(amount)
            IN  IF IsPanic(limbs) THEN Ret("panic", b)
                ELSE Ret("Ok",
                        [b EXCEPT
                           !.fee_token_storage =
                               Extend(@, << <<key, FeltFromU128(limbs[2][1])>>,
                                            <<KeyPlusOne(key), FeltFromU128(limbs[2][2])>> >>),
                           !.contracts[starknet_address[2]].balance = Some(amount)])

\* a document assembled without the fee token storage
GenesisJson_without_storage(b, sequencer_address) ==
    [sequencer_address |-> sequencer_address,
     classes |-> b.classes,
     fee_token |-> [name |-> "Ether", symbol |-> "ETH", decimals |-> 18,
                    storage |-> None, address |-> None, class |-> None],
     universal_deployer |-> None,
     accounts |-> EmptyMap,
     contracts |-> b.contracts]

\* GenesisJson: the fields build() fills from the builder (the others are
\* the defaults of the genesis block)
GenesisJson(b, sequencer_address) ==
    [sequencer_address |-> sequencer_address,
     classes |-> b.classes,
     fee_token |-> [name |-> "Ether", symbol |-> "ETH", decimals |-> 18,
                    storage |-> Some(b.fee_token_storage),
                    address |-> None, class |-> None],
     universal_deployer |-> None,
     accounts |-> EmptyMap,
     contracts |-> b.contracts]

build(b) ==
    LET sequencer_address == compute_starknet_address(b, b.coinbase)
    IN  IF IsOk(sequencer_address) THEN Ok(GenesisJson(b, sequencer_address[2]))
        ELSE sequencer_address

\* a manifest with its two tables exchanged
KatanaManifest_exchanged(b) == [declarations |-> b.cache, deployments |-> b.class_hashes]

\* KatanaManifest
KatanaManifest(b) == [declarations |-> b.class_hashes, deployments |-> b.cache]

\* what the two parallel passes of load_classes compute for the arrival
\* order `order` of the entries: the class hash table and the class list,
\* or the panic of a closure
LoadedClasses(order) ==
    LET items == [i \in 1..Len(order) |-> ParseWork(order[i])]
    IN  IF \E i \in 1..Len(order) : IsPanic(items[i]) THEN Panic("load_classes")
        ELSE
        LET hashes == [i \in 1..Len(items) |-> HashWork(items[i])]
        IN  IF \E i \in 1..Len(items) : IsPanic(hashes[i]) THEN Panic("load_classes")
            ELSE <<"Loaded", CollectClassHashes(hashes), CollectClasses(items)>>

\* self.class_hashes = ...; self.classes = ...
LoadInto(b, loaded) ==
    IF IsPanic(loaded) THEN Ret("panic", b)
    ELSE Ret("Ok", [b EXCEPT !.class_hashes = loaded[2], !.classes = loaded[3]])

load_classes(b, order) == LoadInto(b, LoadedClasses(order))

-----------------------------------------------------------------------------
(* The inputs of the calls. *)

\* the zero key, which is no secp256k1 secret key, and two secret keys
PrivateKeys == {0, 1, 2}

\* 2^130 + 5
Amount130 == [i \in 1..U256Limbs |-> IF i = 1 THEN 5 ELSE IF i = 9 THEN 4 ELSE 0]

Amounts == { Zeros(U256Limbs), Amount130 }

\* more amounts: 0x1234 * 2^120 (across the limb boundary), 2^128 - 1,
\* 2^128, 2^256 - 1
ManyAmounts ==
    Amounts \cup
    { [i \in 1..U256Limbs |-> IF i = 8 THEN 13312 ELSE IF i = 9 THEN 18 ELSE 0],
      U256FromU128(U128_MAX),
      [i \in 1..U256Limbs |-> IF i = 9 THEN 1 ELSE 0],
      Ones(U256Limbs) }

Coinbases == { <<"num", U256Small(7)>> }

Statuses == {"Uninitialized", "Loaded", "Initialized"}

\* the arrival orders of the entries of a tree: par_bridge keeps no order
Orders(t) == { [i \in 1..Len(t) |-> t[p[i]]] : p \in Permutations(1..Len(t)) }

\* what load_classes can compute for each tree, over its arrival orders
LoadedOf == [t \in Trees |-> { LoadedClasses(order) : order \in Orders(t) }]

-----------------------------------------------------------------------------
(* The state machine. *)

Init ==
    /\ coinbase = DefaultBuilder.coinbase
    /\ classes = DefaultBuilder.classes
    /\ class_hashes = DefaultBuilder.class_hashes
    /\ contracts = DefaultBuilder.contracts
    /\ fee_token_storage = DefaultBuilder.fee_token_storage
    /\ cache = DefaultBuilder.cache
    /\ status = "Uninitialized"
    /\ alive = TRUE
    /\ op = "default"
    /\ result = "Ok"
    /\ document = None
    /\ manifest = None
    /\ deployed = FALSE
    /\ pc = "idle"
    /\ walk = <<>>
    /\ todo = {}
    /\ parsed = <<>>
    /\ hashed = EmptyMap

\* the builder's fields become those of b
Becomes(b) ==
    /\ coinbase' = b.coinbase
    /\ classes' = b.classes
    /\ class_hashes' = b.class_hashes
    /\ contracts' = b.contracts
    /\ fee_token_storage' = b.fee_token_storage
    /\ cache' = b.cache

\* a call that takes self by value returns r: on Ok the caller holds the
\* builder again, in next_status; otherwise self was dropped in the call
Returns(call, r, next_status) ==
    /\ op' = call
    /\ result' = r.res
    /\ alive' = (r.res = "Ok")
    /\ status' = IF r.res = "Ok" THEN next_status ELSE status
    /\ Becomes(r.b)
    /\ document' = None
    /\ manifest' = None

\* the caller drops what it holds and starts from KatanaGenesisBuilder::default()
Default ==
    /\ pc = "idle"
    /\ op # "default"
    /\ Becomes(DefaultBuilder)
    /\ status' = "Uninitialized"
    /\ alive' = TRUE
    /\ op' = "default"
    /\ result' = "Ok"
    /\ document' = None
    /\ manifest' = None
    /\ deployed' = FALSE
    /\ walk' = <<>>
    /\ todo' = {}
    /\ parsed' = <<>>
    /\ hashed' = EmptyMap
    /\ UNCHANGED pc

\* update_state::<State>(), public and for any State
UpdateState(state) ==
    /\ alive /\ pc = "idle"
    /\ Returns("update_state", Ret("Ok", Self), state)
    /\ UNCHANGED <<deployed, loaderVars>>

\* load_classes(path) as one step, for any arrival order of the entries
LoadClasses(t) ==
    /\ alive /\ pc = "idle" /\ status = "Uninitialized"
    /\ \E loaded \in LoadedOf[t] :
           Returns("load_classes", LoadInto(Self, loaded), "Loaded")
    /\ UNCHANGED <<deployed, loaderVars>>

WithKakarot(coinbase_address) ==
    /\ alive /\ pc = "idle" /\ status = "Loaded"
    /\ LET r == with_kakarot(Self, coinbase_address)
       IN  /\ Cardinality(DOMAIN r.b.contracts) <= MaxContracts
           /\ Returns("with_kakarot", r, "Initialized")
           /\ deployed' = (deployed \/ r.res = "Ok")
    /\ UNCHANGED loaderVars

WithEoa(private_key) ==
    /\ alive /\ pc = "idle" /\ status = "Initialized"
    /\ Cardinality(DOMAIN with_eoa(Self, private_key).b.contracts) <= MaxContracts
    /\ Returns("with_eoa", with_eoa(Self, private_key), "Initialized")
    /\ UNCHANGED <<deployed, loaderVars>>

Fund(pk, amount) ==
    /\ alive /\ pc = "idle" /\ status = "Initialized"
    /\ Returns("fund", fund(Self, pk, amount), "Initialized")
    /\ UNCHANGED <<deployed, loaderVars>>

\* build(self): the builder is consumed, whatever the result
Build ==
    /\ alive /\ pc = "idle" /\ status = "Initialized"
    /\ LET r == build(Self)
       IN  /\ op' = "build"
           /\ result' = IF IsOk(r) THEN "Ok" ELSE r[2]
           /\ document' = IF IsOk(r) THEN Some(r[2]) ELSE None
    /\ alive' = FALSE
    /\ manifest' = None
    /\ UNCHANGED <<builderVars, status, deployed, loaderVars>>

\* manifest(&self)
Manifest ==
    /\ alive /\ pc = "idle" /\ status = "Initialized"
    /\ op' = "manifest"
    /\ result' = "Ok"
    /\ manifest' = Some(KatanaManifest(Self))
    /\ document' = None
    /\ UNCHANGED <<builderVars, status, alive, deployed, loaderVars>>

Next ==
    \/ Default
    \/ \E state \in Statuses : UpdateState(state)
    \/ \E t \in Trees : LoadClasses(t)
    \/ \E coinbase_address \in Coinbases : WithKakarot(coinbase_address)
    \/ \E private_key \in PrivateKeys : WithEoa(private_key)
    \/ \E pk \in PrivateKeys, amount \in Amounts : Fund(pk, amount)
    \/ Build
    \/ Manifest

Spec == Init /\ [][Next]_vars

-----------------------------------------------------------------------------
(* load_classes step by step: the entries of the tree are parsed by the    *)
(* workers of par_bridge in any order and pushed to the Vec as they        *)
(* arrive; the closures of filter_map then run on the entries of that Vec  *)
(* in any order, and their results are collected in the order of the Vec.  *)

\* load_classes(self, path) is called: self moves into the call
LoadBegin(t) ==
    /\ alive /\ pc = "idle" /\ status = "Uninitialized"
    /\ pc' = "parse"
    /\ walk' = t
    /\ todo' = 1..Len(t)
    /\ parsed' = <<>>
    /\ hashed' = EmptyMap
    /\ alive' = FALSE
    /\ op' = "load_classes"
    /\ result' = "running"
    /\ UNCHANGED <<builderVars, status, document, manifest, deployed>>

\* a worker maps entry i and its result arrives
ParseEntry(i) ==
    /\ pc = "parse" /\ i \in todo
    /\ parsed' = Append(parsed, ParseWork(walk[i]))
    /\ todo' = todo \ {i}
    /\ UNCHANGED <<builderVars, status, alive, op, result, document, manifest,
                   deployed, pc, walk, hashed>>

\* collect::<Vec<_>>() returns, or the panic of a closure is resumed
ParseDone ==
    /\ pc = "parse" /\ todo = {}
    /\ IF \E k \in 1..Len(parsed) : IsPanic(parsed[k])
       THEN pc' = "idle" /\ result' = "panic"
       ELSE pc' = "hash" /\ result' = result
    /\ UNCHANGED <<builderVars, status, alive, op, document, manifest, deployed,
                   walk, todo, parsed, hashed>>

\* a worker runs the filter_map closure on entry j of the Vec
HashEntry(j) ==
    /\ pc = "hash" /\ j \in (1..Len(parsed)) \ DOMAIN hashed
    /\ hashed' = Insert(hashed, j, HashWork(parsed[j]))
    /\ UNCHANGED <<builderVars, status, alive, op, result, document, manifest,
                   deployed, pc, walk, todo, parsed>>

\* collect::<HashMap<_, _>>() returns and load_classes with it, or the panic
\* of a closure is resumed
LoadReturn ==
    /\ pc = "hash" /\ DOMAIN hashed = 1..Len(parsed)
    /\ pc' = "idle"
    /\ IF \E j \in DOMAIN hashed : IsPanic(hashed[j])
       THEN /\ result' = "panic"
            /\ UNCHANGED <<class_hashes, classes, status, alive>>
       ELSE /\ class_hashes' = CollectClassHashes([j \in 1..Len(parsed) |-> hashed[j]])
            /\ classes' = CollectClasses(parsed)
            /\ status' = "Loaded"
            /\ alive' = TRUE
            /\ result' = "Ok"
    /\ UNCHANGED <<coinbase, contracts, fee_token_storage, cache, op, document,
                   manifest, deployed, walk, todo, parsed, hashed>>

NextLoad ==
    \/ Default
    \/ \E t \in Trees : LoadBegin(t)
    \/ \E i \in 1..Len(walk) : ParseEntry(i)
    \/ ParseDone
    \/ \E j \in 1..Len(parsed) : HashEntry(j)
    \/ LoadReturn

SpecLoad == Init /\ [][NextLoad]_vars

-----------------------------------------------------------------------------
(* The builder used as its typestate intends, without a call of            *)
(* update_state by the caller: load_classes, with_kakarot, then with_eoa   *)
(* and fund in any order, with more amounts.                               *)

NextTyped ==
    \/ Default
    \/ \E t \in Trees : LoadClasses(t)
    \/ \E coinbase_address \in Coinbases : WithKakarot(coinbase_address)
    \/ \E private_key \in PrivateKeys : WithEoa(private_key)
    \/ \E pk \in PrivateKeys, amount \in ManyAmounts : Fund(pk, amount)
    \/ Build
    \/ Manifest

SpecTyped == Init /\ [][NextTyped]_vars

-----------------------------------------------------------------------------
(* What the claims read from a state. *)

\* the storage map of the contract at address a
StorageOf(a) == StorageOrNew(contracts[a])

Slot(name) == get_storage_var_address(name, <<>>)

\* the EOA account contracts of the contracts table: those with an
\* evm_address slot
EoaAddresses == { a \in DOMAIN contracts : Slot("evm_address") \in DOMAIN StorageOf(a) }

\* the balance and allowance slots of the fee token storage
Erc20Slots ==
    { k \in DOMAIN fee_token_storage : k[2] \in {"ERC20_balances", "ERC20_allowances"} }

BalanceKey(a) == get_storage_var_address("ERC20_balances", <<a>>)
AllowanceKey(a, spender) == get_storage_var_address("ERC20_allowances", <<a, spender>>)

\* a field element below 2^128
BelowTwo128(f) == f[1] = "num" /\ \A i \in 9..16 : f[2][i] = 0

\* low + high * 2^128 of two field elements below 2^128, as a U256
Recombine(low, high) == [i \in 1..16 |-> IF i <= 8 THEN low[2][i] ELSE high[2][i - 8]]

\* the field element of a number below 2^16
SmallFelt(x) == <<"num", [i \in 1..16 |-> IF i = 1 THEN x ELSE 0]>>

\* the field element 2^128 - 1
MaxU128Felt == <<"num", [i \in 1..16 |-> IF i <= 8 THEN 65535 ELSE 0]>>

\* the ledger address the builder derives from pk, as a Result
DerivedAddress(pk) ==
    IF IsOk(evm_address(pk)) THEN compute_starknet_address(Self, evm_address(pk)[2])
    ELSE evm_address(pk)

-----------------------------------------------------------------------------
(* C1.  Stage gating: the contracts table holds no EOA account contract    *)
(* and the fee token storage no balance or allowance slot unless           *)
(* with_kakarot has succeeded earlier on this builder, whatever public     *)
(* operations (update_state included) were called.                         *)
C1_StageGating == (EoaAddresses # {} \/ Erc20Slots # {}) => deployed

\* an Initialized builder obtained by update_state alone, with every class
\* loaded, was asked to fund an account and refused
C1_Witness ==
    /\ ~deployed /\ status = "Initialized" /\ op = "fund"
    /\ RequiredNames \subseteq DOMAIN class_hashes
    /\ result = CacheMiss("kakarot_address")

(* C2.  Forward-only stages: a call on the builder leaves its stage or     *)
(* moves it one stage forward, and on an Uninitialized builder the only    *)
(* call is load_classes.                                                   *)
C2_ForwardOnly ==
    [][op' # "default" =>
          /\ \/ status' = status
             \/ <<status, status'>> \in
                    { <<"Uninitialized", "Loaded">>, <<"Loaded", "Initialized">> }
          /\ status = "Uninitialized" => op' = "load_classes"]_vars

(* C3.  Balance split: an account funded with A has, in the fee token      *)
(* storage, low at ERC20_balances[account] and high at that slot + 1, both *)
(* below 2^128, with low + high * 2^128 = A; 0 gives two zero limbs and    *)
(* 2^130 + 5 gives low = 5, high = 4.                                      *)
C3_BalanceSplit ==
    \A a \in DOMAIN contracts :
        contracts[a].balance # None =>
            LET A == contracts[a].balance[2]
                key == BalanceKey(a)
            IN  /\ key \in DOMAIN fee_token_storage
                /\ KeyPlusOne(key) \in DOMAIN fee_token_storage
                /\ LET low == fee_token_storage[key]
                       high == fee_token_storage[KeyPlusOne(key)]
                   IN  /\ BelowTwo128(low) /\ BelowTwo128(high)
                       /\ Recombine(low, high) = A
                       /\ (\A i \in 1..16 : A[i] = 0) =>
                              low = SmallFelt(0) /\ high = SmallFelt(0)
                       /\ A = Amount130 => low = SmallFelt(5) /\ high = SmallFelt(4)

\* fund has just succeeded with 2^130 + 5 and the limbs are 5 and 4
C3_Witness ==
    /\ op = "fund" /\ result = "Ok"
    /\ \E a \in DOMAIN contracts :
           /\ contracts[a].balance = Some(Amount130)
           /\ fee_token_storage[BalanceKey(a)] = SmallFelt(5)
           /\ fee_token_storage[KeyPlusOne(BalanceKey(a))] = SmallFelt(4)

(* C4.  Allowance: for every EOA in the contracts table, the fee token     *)
(* slots ERC20_allowances[account, dispatcher] and that slot + 1 hold      *)
(* 2^128 - 1, in every state (so also after later with_eoa and fund).      *)
C4_Allowance ==
    \A a \in EoaAddresses :
        LET key == AllowanceKey(a, StorageOf(a)[Slot("kakarot_address")])
        IN  /\ key \in DOMAIN fee_token_storage
            /\ KeyPlusOne(key) \in DOMAIN fee_token_storage
            /\ fee_token_storage[key] = MaxU128Felt
            /\ fee_token_storage[KeyPlusOne(key)] = MaxU128Felt

\* two accounts were added and one of them funded afterwards
C4_Witness ==
    /\ op = "fund" /\ result = "Ok"
    /\ Cardinality(EoaAddresses) = 2

\* the cross references of the EOA stored under a
CrossReferenced(a) ==
    /\ a \in EoaAddresses
    /\ "kakarot_address" \in DOMAIN cache
    /\ cache["kakarot_address"] \in DOMAIN contracts
    /\ LET dispatcher == cache["kakarot_address"]
           key == get_storage_var_address("evm_to_starknet_address",
                      <<StorageOf(a)[Slot("evm_address")]>>)
       IN  /\ key \in DOMAIN StorageOf(dispatcher)
           /\ StorageOf(dispatcher)[key] = a
           /\ StorageOf(a)[Slot("kakarot_address")] = dispatcher

(* C5.  Cross references: a successful with_eoa leaves the account it adds *)
(* stored under the address the dispatcher's slot                          *)
(* evm_to_starknet_address[evm_address] holds, with the account's          *)
(* kakarot_address slot holding the dispatcher address of the cache; and   *)
(* every later successful with_eoa or fund keeps both for every account    *)
(* that has them.                                                          *)
C5_CrossReference ==
    [][/\ \A private_key \in PrivateKeys :
              (op' = "with_eoa" /\ result' = "Ok" /\ WithEoa(private_key)) =>
                  CrossReferenced(DerivedAddress(private_key)[2])'
       /\ (op' \in {"with_eoa", "fund"} /\ result' = "Ok") =>
              \A a \in EoaAddresses : CrossReferenced(a) => CrossReferenced(a)']_vars

\* both accounts are added and cross referenced, and one was funded before
\* the other was added
C5_Witness ==
    /\ Cardinality(EoaAddresses) = 2
    /\ \A a \in EoaAddresses : CrossReferenced(a)
    /\ op = "with_eoa" /\ result = "Ok"
    /\ \E a \in EoaAddresses : contracts[a].balance # None

(* C6.  fund(pk, amount) succeeds only if the address derived from pk is   *)
(* a key of the contracts table; when the address is derived and is no key *)
(* the call returns "Missing EOA contract"; and a call that fails writes   *)
(* no slot of the fee token storage, changes no contract and returns no    *)
(* builder.                                                                *)
C6_FundMissingAccount ==
    [][op' = "fund" =>
          \A pk \in PrivateKeys, amount \in Amounts :
              \/ /\ result' = "Ok" =>
                        IsOk(DerivedAddress(pk)) /\ DerivedAddress(pk)[2] \in DOMAIN contracts
                 /\ (IsOk(DerivedAddress(pk)) /\ DerivedAddress(pk)[2] \notin DOMAIN contracts)
                        => result' = "Missing EOA contract"
                 /\ result' # "Ok" =>
                        /\ ~alive'
                        /\ fee_token_storage' = fee_token_storage
                        /\ contracts' = contracts
              \/ ~Fund(pk, amount)]_vars

\* after the deployment and with_eoa for one key, fund for another key failed
C6_Witness ==
    /\ op = "fund" /\ result = "Missing EOA contract" /\ ~alive
    /\ EoaAddresses # {}

(* C7.  with_kakarot returns a missing class hash error if one of the five *)
(* class names is absent from the class hash table, and then returns no    *)
(* builder, inserts no contract and caches nothing; with all five present  *)
(* it succeeds and the builder is Initialized.                             *)
C7_WithKakarot ==
    [][\A coinbase_address \in Coinbases :
          (op' = "with_kakarot" /\ WithKakarot(coinbase_address)) =>
              IF RequiredNames \subseteq DOMAIN class_hashes
              THEN result' = "Ok" /\ alive' /\ status' = "Initialized"
                   /\ "kakarot_address" \in DOMAIN cache'
                   /\ cache'["kakarot_address"] \in DOMAIN contracts'
              ELSE /\ result' \in MissingClassHash
                   /\ ~alive' /\ status' = "Loaded"
                   /\ contracts' = contracts
                   /\ cache' = cache]_vars

\* with_kakarot failed on a table that lacks the precompiles class only
C7_Witness ==
    /\ op = "with_kakarot" /\ result = "Missing precompiles class hash"
    /\ RequiredNames \ DOMAIN class_hashes = {"precompiles"}
    /\ ~alive

(* C8.  with_eoa on an Initialized builder whose cache has no              *)
(* "kakarot_address" fails (for a well-formed key, with the cache miss     *)
(* error) and has inserted no contract, no allowance slot and no           *)
(* dispatcher slot.                                                        *)
C8_WithEoaCacheMiss ==
    [][\A private_key \in PrivateKeys :
          (op' = "with_eoa" /\ "kakarot_address" \notin DOMAIN cache
             /\ WithEoa(private_key)) =>
              /\ result' # "Ok" /\ ~alive'
              /\ IsOk(evm_address(private_key)) =>
                     result' = CacheMiss("kakarot_address")
              /\ contracts' = contracts
              /\ fee_token_storage' = fee_token_storage]_vars

\* with_eoa was refused on a builder made Initialized by update_state, with
\* the proxy and EOA classes loaded
C8_Witness ==
    /\ op = "with_eoa" /\ result = CacheMiss("kakarot_address")
    /\ status = "Initialized" /\ ~deployed
    /\ {"proxy", "externally_owned_account"} \subseteq DOMAIN class_hashes

(* C9.  Hash schema fallback: an artifact that parses under the legacy     *)
(* schema only is hashed with the legacy rule, and for an artifact that    *)
(* parses under neither schema compute_class_hash returns an error value   *)
(* (it does not abort).                                                    *)
C9_HashSchemaFallback ==
    \A j \in DOMAIN hashed :
        LET class == parsed[j][3].class[2]
        IN  /\ class[1] = "legacy" =>
                   /\ compute_class_hash(class) = Ok(<<"legacy", class[2]>>)
                   /\ hashed[j] = Some(<<parsed[j][2][2], <<"legacy", class[2]>>>>)
            /\ class[1] = "neither" =>
                   /\ compute_class_hash(class)[1] = "Err"
                   /\ ~IsPanic(hashed[j])

(* C10.  Deterministic parallel load: when load_classes returns, every     *)
(* worker has finished, and the class hash table and the class list are    *)
(* those of the tree, the same for every order in which the workers        *)
(* finish.                                                                 *)
C10_DeterministicLoad ==
    (op = "load_classes" /\ pc = "idle" /\ result = "Ok") =>
        /\ todo = {} /\ Len(parsed) = Len(walk) /\ DOMAIN hashed = 1..Len(walk)
        /\ class_hashes = LoadedClasses(walk)[2]
        /\ classes = LoadedClasses(walk)[3]

(* C11.  No swallowed load errors: when load_classes returns a builder,    *)
(* every file whose class is in the class list has its stem in the class   *)
(* hash table (a class whose hash cannot be computed is not left out       *)
(* silently).                                                              *)
C11_NoSwallowedLoadErrors ==
    (op = "load_classes" /\ pc = "idle" /\ result = "Ok") =>
        /\ classes = CollectClasses(parsed)
        /\ \A k \in 1..Len(parsed) : parsed[k][2][2] \in DOMAIN class_hashes

\* the private keys whose account is in the contracts table
AddedKeys ==
    { pk \in PrivateKeys :
        IsOk(DerivedAddress(pk)) /\ DerivedAddress(pk)[2] \in DOMAIN contracts }

(* C12.  End-to-end document: on a builder taken through load_classes, one *)
(* successful with_kakarot and any with_eoa and fund calls, build() returns *)
(* a document whose contracts table is the builder's: the dispatcher, of   *)
(* the kakarot class, and one account of the proxy class per private key   *)
(* added (1 + n entries); whose fee token storage and class list are the   *)
(* builder's; whose accounts are empty and universal_deployer absent.      *)
C12_DocumentContent ==
    op = "build" =>
        /\ result = "Ok" /\ document # None
        /\ LET d == document[2]
               dispatcher == cache["kakarot_address"]
           IN  /\ d.contracts = contracts
               /\ d.fee_token.storage = Some(fee_token_storage)
               /\ d.classes = classes
               /\ d.accounts = EmptyMap
               /\ d.universal_deployer = None
               /\ dispatcher \in DOMAIN d.contracts
               /\ d.contracts[dispatcher].class = class_hashes["kakarot"]
               /\ DOMAIN d.contracts =
                      {dispatcher} \cup { DerivedAddress(pk)[2] : pk \in AddedKeys }
               /\ \A pk \in AddedKeys :
                      /\ DerivedAddress(pk)[2] # dispatcher
                      /\ d.contracts[DerivedAddress(pk)[2]].class = class_hashes["proxy"]
               /\ Cardinality(DOMAIN d.contracts) = 1 + Cardinality(AddedKeys)

\* a document was built from a builder with two accounts, one of them funded
C12_Witness ==
    /\ op = "build" /\ result = "Ok" /\ document # None
    /\ Cardinality(AddedKeys) = 2
    /\ Cardinality(DOMAIN document[2].contracts) = 3
    /\ \E a \in EoaAddresses : document[2].contracts[a].balance # None

(* C13.  manifest() does not consume the builder: it leaves every field   *)
(* of the builder unchanged, the caller still holds the Initialized        *)
(* builder, and the manifest returned has the class hash table as its      *)
(* declarations and the cache as its deployments.                          *)
C13_ManifestNonConsuming ==
    [][op' = "manifest" =>
          /\ builderVars' = builderVars
          /\ alive /\ alive' /\ status' = status /\ status' = "Initialized"
          /\ pc' = "idle"
          /\ result' = "Ok"
          /\ manifest' = Some([declarations |-> class_hashes, deployments |-> cache])]_vars

\* manifest() was called on a builder with the dispatcher and an account
C13_Witness ==
    /\ op = "manifest" /\ alive /\ manifest # None
    /\ EoaAddresses # {}
    /\ "kakarot_address" \in DOMAIN manifest[2].deployments
    /\ RequiredNames \subseteq DOMAIN manifest[2].declarations

(* C14.  The class hash table is written once: once load_classes has      *)
(* filled it, no later call on the same builder (update_state and what it  *)
(* unlocks included) adds, removes or changes an entry.                    *)
C14_ClassHashesWrittenOnce ==
    [][(class_hashes # EmptyMap /\ op' # "default") =>
          class_hashes' = class_hashes]_vars

(* C15.  The cache is append-only: in every step of a call on the builder, *)
(* every key of the cache stays and keeps its value (so the value under    *)
(* "kakarot_address" never changes once written).                          *)
C15_CacheAppendOnly ==
    [][op' # "default" =>
          \A k \in DOMAIN cache : k \in DOMAIN cache' /\ cache'[k] = cache[k]]_vars

\* the values of the storage of contract c that are meant to be the address
\* of a contract: those of the evm_to_starknet_address slots and of the
\* kakarot_address slot
AddressValues(c) ==
    { StorageOf(c)[k] : k \in { k \in DOMAIN StorageOf(c) :
                                  \/ k[2] = "evm_to_starknet_address"
                                  \/ k = Slot("kakarot_address") } }

(* C16.  Referential integrity at assembly: in every state in which        *)
(* build() can be called, every account address held in an                 *)
(* evm_to_starknet_address slot and every dispatcher address held in a     *)
(* kakarot_address slot of a contract's storage is a key of the contracts  *)
(* table.                                                                  *)
C16_ReferentialIntegrity ==
    (alive /\ pc = "idle" /\ status = "Initialized") =>
        \A c \in DOMAIN contracts : AddressValues(c) \subseteq DOMAIN contracts

\* build() can be called on a builder whose dispatcher maps two accounts
C16_Witness ==
    /\ alive /\ pc = "idle" /\ status = "Initialized"
    /\ Cardinality(EoaAddresses) = 2
    /\ \E c \in DOMAIN contracts : AddressValues(c) = EoaAddresses
    /\ \A a \in EoaAddresses : AddressValues(a) = {cache["kakarot_address"]}

(* C17.  Declared class hash field: when load_classes returns, every class *)
(* whose hash was computed is in the class list with that hash in its      *)
(* class_hash field.                                                       *)
C17_ClassHashField ==
    (op = "load_classes" /\ pc = "idle" /\ result = "Ok") =>
        \A j \in DOMAIN hashed :
            hashed[j][1] = "Some" =>
                \E c \in BagToSet(classes) :
                    /\ c.class = parsed[j][3].class
                    /\ c.class_hash = Some(hashed[j][2][2])

\* map m2 is map m1 but for the keys of ks, which m2 may add or change
SameBut(m1, m2, ks) ==
    /\ DOMAIN m1 \subseteq DOMAIN m2
    /\ DOMAIN m2 \subseteq DOMAIN m1 \cup ks
    /\ \A k \in DOMAIN m1 \ ks : m2[k] = m1[k]

\* the fields of the builder that neither with_eoa nor fund writes
SameTables ==
    /\ cache' = cache /\ class_hashes' = class_hashes
    /\ classes' = classes /\ coinbase' = coinbase

\* what a successful fund(pk, _) leaves as it was
FundFrame(pk) ==
    /\ IsOk(DerivedAddress(pk))
    /\ LET a == DerivedAddress(pk)[2]
       IN  /\ a \in DOMAIN contracts
           /\ DOMAIN contracts' = DOMAIN contracts
           /\ \A c \in DOMAIN contracts \ {a} : contracts'[c] = contracts[c]
           /\ contracts'[a] = [contracts[a] EXCEPT !.balance = contracts'[a].balance]
           /\ SameBut(fee_token_storage, fee_token_storage',
                      {BalanceKey(a), KeyPlusOne(BalanceKey(a))})
    /\ SameTables

\* what a successful with_eoa(private_key) leaves as it was
WithEoaFrame(private_key) ==
    /\ IsOk(DerivedAddress(private_key))
    /\ LET a == DerivedAddress(private_key)[2]
           dispatcher == cache["kakarot_address"]
           entry == get_storage_var_address("evm_to_starknet_address",
                        <<evm_address(private_key)[2]>>)
           key == AllowanceKey(a, dispatcher)
       IN  /\ dispatcher \in DOMAIN contracts /\ dispatcher # a
           /\ DOMAIN contracts' = DOMAIN contracts \cup {a}
           /\ \A c \in DOMAIN contracts \ {a, dispatcher} : contracts'[c] = contracts[c]
           /\ contracts[dispatcher].storage # None
           /\ contracts'[dispatcher].storage # None
           /\ contracts'[dispatcher] =
                  [contracts[dispatcher] EXCEPT !.storage = contracts'[dispatcher].storage]
           /\ SameBut(contracts[dispatcher].storage[2],
                      contracts'[dispatcher].storage[2], {entry})
           /\ \A name \in {"native_token_address", "contract_account_class_hash",
                           "externally_owned_account_class_hash",
                           "account_proxy_class_hash", "precompiles_class_hash",
                           "coinbase"} :
                  /\ Slot(name) \in DOMAIN contracts[dispatcher].storage[2]
                  /\ contracts'[dispatcher].storage[2][Slot(name)] =
                         contracts[dispatcher].storage[2][Slot(name)]
           /\ SameBut(fee_token_storage, fee_token_storage', {key, KeyPlusOne(key)})
    /\ SameTables

(* C18.  Frame of with_eoa and fund: a successful fund(pk, A) changes only *)
(* the balance field of pk's account and the two fee token slots           *)
(* ERC20_balances[account] and + 1; a successful with_eoa(pk) changes only *)
(* pk's account entry, its two allowance slots and the dispatcher's slot   *)
(* evm_to_starknet_address[evm_address], the dispatcher's six              *)
(* configuration slots and every other contract staying as they were; and  *)
(* neither changes the cache or the class tables.                          *)
C18_MutatorFrame ==
    [][/\ (op' = "fund" /\ result' = "Ok") =>
              \A pk \in PrivateKeys, amount \in Amounts :
                  FundFrame(pk) \/ ~Fund(pk, amount)
       /\ (op' = "with_eoa" /\ result' = "Ok") =>
              \A private_key \in PrivateKeys :
                  WithEoaFrame(private_key) \/ ~WithEoa(private_key)]_vars

\* a second account was added to a builder whose first account is funded
C18_Witness ==
    /\ op = "with_eoa" /\ result = "Ok"
    /\ Cardinality(EoaAddresses) = 2
    /\ \E a \in EoaAddresses :
           /\ contracts[a].balance = Some(Amount130)
           /\ BalanceKey(a) \in DOMAIN fee_token_storage

(* C19.  Balance consistency: in every state, an account of the contracts *)
(* table records a balance Some(A) exactly when the fee token storage      *)
(* holds its two balance limbs, which then recombine to A; it records no   *)
(* balance exactly when no limb is stored for it.                          *)
C19_BalanceConsistency ==
    \A a \in EoaAddresses :
        LET key == BalanceKey(a)
            stored == {key, KeyPlusOne(key)} \cap DOMAIN fee_token_storage
        IN  IF contracts[a].balance # None
            THEN /\ stored = {key, KeyPlusOne(key)}
                 /\ Recombine(fee_token_storage[key], fee_token_storage[KeyPlusOne(key)])
                        = contracts[a].balance[2]
            ELSE stored = {}

\* two calls chained with the ? operator: the second runs on the builder
\* the first returned
EoaThenEoa(b, p, q) ==
    LET r == with_eoa(b, p) IN IF r.res = "Ok" THEN with_eoa(r.b, q) ELSE r

FundThenFund(b, p, A, q, B) ==
    LET r == fund(b, p, A) IN IF r.res = "Ok" THEN fund(r.b, q, B) ELSE r

EoaThenFund(b, q, p, A) ==
    LET r == with_eoa(b, q) IN IF r.res = "Ok" THEN fund(r.b, p, A) ELSE r

FundThenEoa(b, p, A, q) ==
    LET r == fund(b, p, A) IN IF r.res = "Ok" THEN with_eoa(r.b, q) ELSE r

\* both chains fail, or both return the same builder
SameOutcome(r1, r2) ==
    /\ (r1.res = "Ok") = (r2.res = "Ok")
    /\ r1.res = "Ok" => r1.b = r2.b

\* the calls on the keys p and q commute on the builder the caller holds
Commute(p, q) ==
    /\ SameOutcome(EoaThenEoa(Self, p, q), EoaThenEoa(Self, q, p))
    /\ \A A \in Amounts :
           /\ SameOutcome(EoaThenFund(Self, q, p, A), FundThenEoa(Self, p, A, q))
           /\ \A B \in Amounts :
                  SameOutcome(FundThenFund(Self, p, A, q, B), FundThenFund(Self, q, B, p, A))

(* C20.  Order independence: on every Initialized builder and for two     *)
(* distinct private keys p and q, with_eoa(p) and with_eoa(q), fund(p, A)  *)
(* and fund(q, B), and with_eoa(q) and fund(p, A) give the same builder    *)
(* (contracts, fee token storage, cache) in either order, or fail in both; *)
(* and the builder depends only on the set of accounts added and the last  *)
(* amount funded to each, so with_eoa(p) and fund(p, A) on the added       *)
(* account of one key p give the same builder in either order as well.     *)
C20_OrderIndependence ==
    (alive /\ pc = "idle" /\ status = "Initialized") =>
        /\ \A p \in PrivateKeys : \A q \in PrivateKeys \ {p} : Commute(p, q)
        /\ \A p \in AddedKeys, A \in Amounts :
               SameOutcome(EoaThenFund(Self, p, p, A), FundThenEoa(Self, p, A, p))

====
